---- MODULE Spec2Model ----
(***************************************************************************)
(* Inspection-to-certificate workflow of the certification backend.        *)
(*                                                                         *)
(* The state is the backing store (the inspections, certificates and       *)
(* audit_logs tables) together with the HTTP requests that are in flight.  *)
(* Every handler is cut into steps at the awaits that read or write the    *)
(* store, so that requests interleave the way the event loop lets them.    *)
(*                                                                         *)
(* JavaScript values: a missing property is Undefined, SQL NULL is Null;   *)
(* both are falsy, and so is the number 0.                                 *)
(***************************************************************************)
EXTENDS Integers, Sequences, FiniteSets, TLC

\* ---------------------------------------------------------------- bounds
NumFarms == 2
MaxInspections == 2
MaxRequests == 3
MaxInFlight == 2
MaxChecklistLen == 5
MaxScore == 100
MaxTick == 2
MaxRandom == 2

\* ------------------------------------------------------- program constants
Threshold == 80

Undefined == -1
Null == -2

\* SQL NULL of a text column, and the missing reason of a request body
NullText == "NULL"
NoReason == "undefined"

\* pdfResult.pdfUrl of a rendered certificate
PdfUrl == "/certificates/certificate.pdf"

Farms == 1..NumFarms
Slots == 1..MaxInFlight

\* The statuses of the lifecycle; a request body may name any of them, and
\* the store keeps the status a handler writes.
Statuses == {"scheduled", "in_progress", "completed", "approved", "rejected", "cancelled"}
NoStatus == "undefined"

\* ENUM of the status column of the ORM model of an inspection.
OrmStatuses == {"scheduled", "in_progress", "completed", "failed", "cancelled"}

\* The five fixed checklist keys, in the order of DEFAULT_CHECKLIST.
CHECKLIST_QUESTIONS == <<"syntheticInputs", "bufferZones", "organicSeed", "compostManagement", "recordKeeping">>

\* A checklist is the sequence of the answers of its items; an answer is
\* "true", "false", "null" or "undefined".  NoChecklist is a body without a
\* checklist property.
NoChecklist == <<"absent">>
Ck80 == <<"false", "true", "true", "true", "true">>
CkPartial == <<"true", "true", "true", "true", "undefined">>
\* the items of Ck80 and one more, under a key that is none of the five
CkForeignKey == Ck80 \o <<"true">>
ChecklistInputs == {Ck80, CkPartial}
ScoreInputs == {0, 60, 80}

\* ------------------------------------------------------------ pure helpers
Truthy(v) == v \notin {Undefined, Null, 0}

\* JavaScript a || b on numbers
OrElse(a, b) == IF Truthy(a) THEN a ELSE b

\* JavaScript v >= 80: undefined compares false, null converts to 0
GreaterEq(v, n) == IF v = Undefined THEN FALSE ELSE IF v = Null THEN 0 >= n ELSE v >= n

RECURSIVE CountIf(_, _)
CountIf(s, ok) == IF s = <<>> THEN 0 ELSE (IF Head(s) \in ok THEN 1 ELSE 0) + CountIf(Tail(s), ok)

\* Math.round of 100 * num / den for den > 0 (round half up)
RoundPct(num, den) == (200 * num + den) \div (2 * den)

calculateComplianceScore(checklist) ==
    LET answered == CountIf(checklist, {"true", "false", "null"})
        yes == CountIf(checklist, {"true"})
    IN  IF answered = 0 THEN 0 ELSE RoundPct(yes, answered)

\* isEligibleForCertification with > in the place of >=
isEligibleAboveThreshold(score) == score \notin {Undefined, Null} /\ score > Threshold

isEligibleForCertification(score) == GreaterEq(score, Threshold)

\* InspectionController.isEligibleForCertification
InspectionController_isEligibleForCertification(score) == GreaterEq(score, Threshold)

\* ------------------------------------------------------------------ state
VARIABLES
    inspections,    \* id -> row of the inspections table
    certificates,   \* set of rows of the certificates table
    audit_logs,     \* sequence of status-change rows of audit_logs
    nextInspId,     \* AUTO_INCREMENT of inspections
    nextCertId,     \* AUTO_INCREMENT of certificates
    req,            \* slot -> the request in flight in that slot
    started,        \* number of requests accepted so far
    response        \* the response sent by the last step, NoResp if none

vars == <<inspections, certificates, audit_logs, nextInspId, nextCertId, req, started, response>>

\* The fields of a request in flight: its body (status, score, checklist) and
\* the locals of its handler (oldStatus and farm of the inspection it read,
\* certGen = certificateGenerated).  overlapped is bookkeeping of the model: a
\* concurrent approval of another inspection of the same farm has inserted
\* its certificate while this request was in flight; wrote: this request has
\* written to the inspections table.
Idle == [kind |-> "idle", id |-> 0, pc |-> "idle", status |-> NoStatus, score |-> Undefined,
         checklist |-> NoChecklist, oldStatus |-> NoStatus, farm |-> 0, certGen |-> FALSE,
         overlapped |-> FALSE, wrote |-> FALSE]

NoResp == [kind |-> "none", id |-> 0, code |-> 0, outcome |-> "none", score |-> Undefined]

Resp(kind, id, code, outcome, score) ==
    [kind |-> kind, id |-> id, code |-> code, outcome |-> outcome, score |-> score]

ActiveCerts(farm) == {c \in certificates : c.farm_id = farm /\ c.status = "active"}

\* the request budget of a behaviour
Budget == started < MaxRequests

\* a request that awaits between its steps is accepted into the lowest free slot
CanStart(r) ==
    /\ Budget
    /\ req[r].kind = "idle"
    /\ \A q \in Slots : q < r => req[q].kind # "idle"

Init ==
    /\ inspections = [i \in {} |-> Idle]
    /\ certificates = {}
    /\ audit_logs = <<>>
    /\ nextInspId = 1
    /\ nextCertId = 1
    /\ req = [r \in Slots |-> Idle]
    /\ started = 0
    /\ response = NoResp

\* db.create('certificates', ...): the new row, active unless said otherwise
NewCertificate(farm, origin, via, pdf_url) ==
    [id |-> nextCertId, farm_id |-> farm, status |-> "active", pdf_url |-> pdf_url,
     origin |-> origin, via |-> via]

InsertCertificate(farm, origin, via, pdf_url) ==
    /\ certificates' = certificates \cup {NewCertificate(farm, origin, via, pdf_url)}
    /\ nextCertId' = nextCertId + 1

\* createChecklist(): the five default items, none answered
createChecklist == [i \in 1..Len(CHECKLIST_QUESTIONS) |-> "undefined"]

\* the checklist object POST / stores when the body has none
NullChecklist == [i \in 1..Len(CHECKLIST_QUESTIONS) |-> "null"]

\* --------------------------------------------------------- POST /inspections
\* The farm and farmer look-ups read tables that no modelled request writes,
\* so the handler is one step.
CreateInspection(farm, status, score, checklist) ==
    /\ nextInspId <= MaxInspections
    /\ UNCHANGED <<certificates, audit_logs, nextCertId, req, started>>
    /\ IF farm \notin Farms
       THEN /\ response' = Resp("create", 0, 400, "FarmNotFound", Undefined)
            /\ UNCHANGED <<inspections, nextInspId>>
       ELSE LET complianceScore ==
                    calculateComplianceScore(IF checklist # NoChecklist THEN checklist ELSE createChecklist)
                row == [farm_id |-> farm,
                        status |-> IF status # NoStatus THEN status ELSE "scheduled",
                        score |-> OrElse(OrElse(score, complianceScore), Null),
                        compliance_score |-> Null,
                        notes |-> NullText,
                        checklist |-> IF checklist # NoChecklist THEN checklist ELSE NullChecklist]
            IN  /\ inspections' = [i \in DOMAIN inspections \cup {nextInspId} |->
                                      IF i = nextInspId THEN row ELSE inspections[i]]
                /\ nextInspId' = nextInspId + 1
                /\ response' = Resp("create", nextInspId, 201, "Created", Undefined)

\* ------------------------------------------------------ PUT /inspections/:id
\* updateData.complianceScore as the handler leaves it before Inspection.update
PutComplianceScore(q) ==
    IF q.score # Undefined THEN q.score
    ELSE IF q.checklist # NoChecklist THEN calculateComplianceScore(q.checklist)
    ELSE Undefined

\* Inspection.update(id, data): the columns the statement sets
InspectionUpdate(row, q) ==
    [row EXCEPT
        !.status = IF q.status # NoStatus THEN q.status ELSE @,
        !.score = IF q.score # Undefined THEN q.score
                  ELSE IF PutComplianceScore(q) # Undefined THEN PutComplianceScore(q)
                  ELSE @,
        !.checklist = IF q.checklist # NoChecklist THEN q.checklist ELSE @]

\* PutWantsCertificate without the comparison of the score
PutWantsCertificateAnyScore(q) ==
    q.status = "completed"

\* the guard of the automatic certificate generation
PutWantsCertificate(q) ==
    /\ q.status = "completed"
    /\ (GreaterEq(q.score, Threshold) \/ GreaterEq(PutComplianceScore(q), Threshold))

\* a status-history row is written iff the body names a status other than
\* the one read at the start of the request
PutStatusChanged(q) == q.status # NoStatus /\ q.oldStatus # q.status

\* what is left of the handler once the certificate block is over
PutAfterCertificate(r, q) ==
    IF PutStatusChanged(q)
    THEN /\ req' = [req EXCEPT ![r] = [q EXCEPT !.pc = "audit"]]
         /\ response' = NoResp
    ELSE /\ req' = [req EXCEPT ![r] = Idle]
         /\ response' = Resp("put", q.id, 200, IF q.certGen THEN "UpdatedWithCertificate" ELSE "Updated", Undefined)

\* db.findById('inspections', id)
PutRead(r, id, status, score, checklist) ==
    /\ CanStart(r)
    /\ started' = started + 1
    /\ UNCHANGED <<inspections, certificates, audit_logs, nextInspId, nextCertId>>
    /\ IF id \notin DOMAIN inspections
       THEN /\ response' = Resp("put", id, 404, "NotFound", Undefined)
            /\ UNCHANGED req
       ELSE /\ response' = NoResp
            /\ req' = [req EXCEPT ![r] = [kind |-> "put", id |-> id, pc |-> "write",
                            status |-> status, score |-> score, checklist |-> checklist,
                            oldStatus |-> inspections[id].status,
                            farm |-> inspections[id].farm_id, certGen |-> FALSE,
                            overlapped |-> FALSE, wrote |-> FALSE]]

\* Inspection.update, then the guard of the certificate block
PutWrite(r) ==
    LET q == req[r] IN
    /\ q.kind = "put" /\ q.pc = "write"
    /\ inspections' = [inspections EXCEPT ![q.id] = InspectionUpdate(@, q)]
    /\ UNCHANGED <<certificates, audit_logs, nextInspId, nextCertId, started>>
    /\ IF PutWantsCertificate(q)
       THEN /\ req' = [req EXCEPT ![r].pc = "check", ![r].wrote = TRUE]
            /\ response' = NoResp
       ELSE PutAfterCertificate(r, [q EXCEPT !.wrote = TRUE])

\* SELECT * FROM certificates WHERE farm_id = ? AND status = "active"
PutCheck(r) ==
    LET q == req[r] IN
    /\ q.kind = "put" /\ q.pc = "check"
    /\ UNCHANGED <<inspections, certificates, audit_logs, nextInspId, nextCertId, started>>
    /\ IF ActiveCerts(q.farm) = {}
       THEN /\ req' = [req EXCEPT ![r].pc = "render"]
            /\ response' = NoResp
       ELSE PutAfterCertificate(r, q)

\* generateCertificatePDF: resolves, or rejects and the catch swallows it
PutRender(r) ==
    LET q == req[r] IN
    /\ q.kind = "put" /\ q.pc = "render"
    /\ UNCHANGED <<inspections, certificates, audit_logs, nextInspId, nextCertId, started>>
    /\ \/ /\ req' = [req EXCEPT ![r].pc = "create"]
          /\ response' = NoResp
       \/ PutAfterCertificate(r, q)

\* db.create('certificates', certificateData)
PutCreate(r) ==
    LET q == req[r] IN
    /\ q.kind = "put" /\ q.pc = "create"
    /\ InsertCertificate(q.farm, q.id, "put", PdfUrl)
    /\ UNCHANGED <<inspections, audit_logs, nextInspId, started>>
    /\ PutAfterCertificate(r, [q EXCEPT !.certGen = TRUE])

\* INSERT INTO audit_logs, then the response
PutAudit(r) ==
    LET q == req[r] IN
    /\ q.kind = "put" /\ q.pc = "audit"
    /\ audit_logs' = Append(audit_logs, [record_id |-> q.id, old |-> q.oldStatus, new |-> q.status])
    /\ UNCHANGED <<inspections, certificates, nextInspId, nextCertId, started>>
    /\ req' = [req EXCEPT ![r] = Idle]
    /\ response' = Resp("put", q.id, 200, IF q.certGen THEN "UpdatedWithCertificate" ELSE "Updated", Undefined)

\* --------------------------------------------- POST /inspections/:id/approve
ApproveKinds == {"route", "controller"}

\* String.prototype.toLowerCase on a status: the capitalised statuses the
\* older handlers write are folded, a lower-case status is itself
ToLowerCase(status) ==
    CASE status = "Completed" -> "completed"
      [] status = "Submitted" -> "submitted"
      [] status = "Approved" -> "approved"
      [] status = "Rejected" -> "rejected"
      [] status = "Draft" -> "draft"
      [] OTHER -> status

\* inspection.score || inspection.compliance_score
ApproveScore(row) == OrElse(row.score, row.compliance_score)

\* ApproveRead without the check of the status it has read
ApproveReadAnyStatus(r, id, via) ==
    /\ CanStart(r)
    /\ started' = started + 1
    /\ UNCHANGED <<inspections, certificates, audit_logs, nextInspId, nextCertId>>
    /\ IF id \notin DOMAIN inspections
       THEN /\ response' = Resp("approve", id, 404, "NotFound", Undefined)
            /\ UNCHANGED req
       ELSE IF ~isEligibleForCertification(ApproveScore(inspections[id]))
       THEN /\ response' = Resp("approve", id, 400, "BelowThreshold", ApproveScore(inspections[id]))
            /\ UNCHANGED req
       ELSE \/ /\ response' = NoResp
               /\ req' = [req EXCEPT ![r] = [Idle EXCEPT !.kind = via, !.id = id, !.pc = "render",
                                                       !.oldStatus = inspections[id].status,
                                                       !.farm = inspections[id].farm_id]]
            \/ /\ via = "route"
               /\ response' = Resp("approve", id, 400, "FarmNotFound", Undefined)
               /\ UNCHANGED req

\* The route handler (via = "route") and InspectionController.approve
\* (via = "controller") run the same checks on the row they have read.  The
\* route handler then looks the farm and the farmer up: db.findById gives the
\* rows, or null when the read fails; these tables are written by no
\* modelled request, so the look-up is part of the step.
ApproveRead(r, id, via) ==
    /\ CanStart(r)
    /\ started' = started + 1
    /\ UNCHANGED <<inspections, certificates, audit_logs, nextInspId, nextCertId>>
    /\ IF id \notin DOMAIN inspections
       THEN /\ response' = Resp("approve", id, 404, "NotFound", Undefined)
            /\ UNCHANGED req
       ELSE IF ToLowerCase(inspections[id].status) # "completed"
       THEN /\ response' = Resp("approve", id, 400, "NotCompleted", Undefined)
            /\ UNCHANGED req
       ELSE IF ~isEligibleForCertification(ApproveScore(inspections[id]))
       THEN /\ response' = Resp("approve", id, 400, "BelowThreshold", ApproveScore(inspections[id]))
            /\ UNCHANGED req
       ELSE \/ /\ response' = NoResp
               /\ req' = [req EXCEPT ![r] = [Idle EXCEPT !.kind = via, !.id = id, !.pc = "render",
                                                       !.oldStatus = inspections[id].status,
                                                       !.farm = inspections[id].farm_id]]
            \/ /\ via = "route"
               /\ response' = Resp("approve", id, 400, "FarmNotFound", Undefined)
               /\ UNCHANGED req

\* ApproveRender for a handler that saves the row before it renders
ApproveRenderKeepsRow(r) ==
    LET q == req[r] IN
    /\ q.kind \in ApproveKinds /\ q.pc = "render"
    /\ UNCHANGED <<inspections, audit_logs, nextInspId, started>>
    /\ \/ /\ req' = [req EXCEPT ![r].pc = "create"]
          /\ response' = NoResp
          /\ UNCHANGED <<certificates, nextCertId>>
       \/ /\ req' = [req EXCEPT ![r] = Idle]
          /\ response' = Resp("approve", q.id, 500, "Failed", Undefined)
          /\ InsertCertificate(q.farm, q.id, q.kind, NullText)

\* PDFService.generateCertificatePDF: resolves, or rejects into the catch
ApproveRender(r) ==
    LET q == req[r] IN
    /\ q.kind \in ApproveKinds /\ q.pc = "render"
    /\ UNCHANGED <<inspections, certificates, audit_logs, nextInspId, nextCertId, started>>
    /\ \/ /\ req' = [req EXCEPT ![r].pc = "create"]
          /\ response' = NoResp
       \/ /\ req' = [req EXCEPT ![r] = Idle]
          /\ response' = Resp("approve", q.id, 500, "Failed", Undefined)

\* db.create('certificates', certificateData), then the PDF is sent
ApproveCreate(r) ==
    LET q == req[r] IN
    /\ q.kind \in ApproveKinds /\ q.pc = "create"
    /\ InsertCertificate(q.farm, q.id, q.kind, NullText)
    /\ UNCHANGED <<inspections, audit_logs, nextInspId, started>>
    /\ req' = [p \in Slots |->
                IF p = r THEN Idle
                ELSE IF req[p].kind \in ApproveKinds /\ req[p].farm = q.farm /\ req[p].id # q.id
                THEN [req[p] EXCEPT !.overlapped = TRUE]
                ELSE req[p]]
    /\ response' = Resp("approve", q.id, 200, "Approved", Undefined)

\* ---------------------------------------------- POST /inspections/:id/reject
Reject(id, reason) ==
    /\ Budget
    /\ started' = started + 1
    /\ UNCHANGED <<certificates, audit_logs, nextInspId, nextCertId, req>>
    /\ IF id \notin DOMAIN inspections
       THEN /\ response' = Resp("reject", id, 404, "NotFound", Undefined)
            /\ UNCHANGED inspections
       ELSE IF ToLowerCase(inspections[id].status) # "submitted"
       THEN /\ response' = Resp("reject", id, 400, "NotSubmitted", Undefined)
            /\ UNCHANGED inspections
       ELSE /\ inspections' = [inspections EXCEPT ![id].status = "rejected",
                                                  ![id].notes = IF reason # NoReason THEN reason ELSE @]
            /\ response' = Resp("reject", id, 200, "Rejected", Undefined)

\* ------------------------------------------- InspectionController.update
\* Model.update validates the ENUM of the status attribute and sets every
\* attribute the body carries, farmId among them.  The write names the row by
\* id only, so the read before it and the write are one step.
CtlUpdate(id, status, score, complianceScore, farmId) ==
    /\ Budget
    /\ started' = started + 1
    /\ UNCHANGED <<certificates, audit_logs, nextInspId, nextCertId, req>>
    /\ IF id \notin DOMAIN inspections
       THEN /\ response' = Resp("update", id, 404, "NotFound", Undefined)
            /\ UNCHANGED inspections
       ELSE IF status # NoStatus /\ status \notin OrmStatuses
       THEN /\ response' = Resp("update", id, 400, "ValidationError", Undefined)
            /\ UNCHANGED inspections
       ELSE /\ inspections' = [inspections EXCEPT ![id] =
                    [@ EXCEPT !.farm_id = IF farmId # Undefined THEN farmId ELSE @,
                              !.status = IF status # NoStatus THEN status ELSE @,
                              !.score = IF score # Undefined THEN score ELSE @,
                              !.compliance_score = IF complianceScore # Undefined THEN complianceScore ELSE @]]
            /\ response' = Resp("update", id, 200, "Updated", Undefined)

\* -------------------------------------------------------- POST /certificates
CertificateCreate(farm) ==
    /\ Budget
    /\ started' = started + 1
    /\ UNCHANGED <<inspections, audit_logs, nextInspId, req>>
    /\ IF farm \notin Farms
       THEN /\ response' = Resp("certificate", 0, 404, "FarmNotFound", Undefined)
            /\ UNCHANGED <<certificates, nextCertId>>
       ELSE /\ InsertCertificate(farm, 0, "direct", NullText)
            /\ response' = Resp("certificate", nextCertId, 201, "Created", Undefined)

\* ---------------------------------------------- POST /certificates/:id/renew
CertificateRenew(id) ==
    /\ Budget
    /\ started' = started + 1
    /\ UNCHANGED <<inspections, audit_logs, nextInspId, nextCertId, req>>
    /\ IF \A c \in certificates : c.id # id
       THEN /\ response' = Resp("renew", id, 404, "NotFound", Undefined)
            /\ UNCHANGED certificates
       ELSE /\ certificates' = {IF c.id = id THEN [c EXCEPT !.status = "renewal_pending"] ELSE c : c \in certificates}
            /\ response' = Resp("renew", id, 200, "RenewalRequested", Undefined)

\* ------------------------------------------------ GET /certificates/:id/pdf
\* The document is rendered again and its path is stored on the row.  The
\* farm and the farmer of a certificate exist.
CertificatePdf(id) ==
    /\ Budget
    /\ started' = started + 1
    /\ UNCHANGED <<inspections, audit_logs, nextInspId, nextCertId, req>>
    /\ IF \A c \in certificates : c.id # id
       THEN /\ response' = Resp("pdf", id, 404, "NotFound", Undefined)
            /\ UNCHANGED certificates
       ELSE /\ certificates' = {IF c.id = id THEN [c EXCEPT !.pdf_url = PdfUrl] ELSE c : c \in certificates}
            /\ response' = Resp("pdf", id, 200, "Downloaded", Undefined)

\* ------------------------------ POST /inspections/:id/approve, older router
\* The older router approves an inspection whose status is 'Submitted' and
\* reads the compliance_score column alone.
LegacyApproveRead(r, id) ==
    /\ CanStart(r)
    /\ started' = started + 1
    /\ UNCHANGED <<inspections, certificates, audit_logs, nextInspId, nextCertId>>
    /\ IF id \notin DOMAIN inspections
       THEN /\ response' = Resp("legacy", id, 404, "NotFound", Undefined)
            /\ UNCHANGED req
       ELSE IF inspections[id].status # "Submitted"
       THEN /\ response' = Resp("legacy", id, 400, "NotSubmitted", Undefined)
            /\ UNCHANGED req
       ELSE IF ~isEligibleForCertification(inspections[id].compliance_score)
       THEN /\ response' = Resp("legacy", id, 400, "BelowThreshold", inspections[id].compliance_score)
            /\ UNCHANGED req
       ELSE /\ response' = NoResp
            /\ req' = [req EXCEPT ![r] = [Idle EXCEPT !.kind = "legacy", !.id = id, !.pc = "write",
                                                    !.oldStatus = inspections[id].status,
                                                    !.farm = inspections[id].farm_id]]

\* db.update('inspections', id, { status: 'Approved' })
LegacyApproveWrite(r) ==
    LET q == req[r] IN
    /\ q.kind = "legacy" /\ q.pc = "write"
    /\ inspections' = [inspections EXCEPT ![q.id].status = "Approved"]
    /\ UNCHANGED <<certificates, audit_logs, nextInspId, nextCertId, started>>
    /\ req' = [req EXCEPT ![r].pc = "lookup", ![r].wrote = TRUE]
    /\ response' = NoResp

\* db.findById('farms', ...) and db.findById('farmers', ...): the rows, or
\* null, which findById also returns when the read fails
LegacyApproveLookup(r) ==
    LET q == req[r] IN
    /\ q.kind = "legacy" /\ q.pc = "lookup"
    /\ UNCHANGED <<inspections, certificates, audit_logs, nextInspId, nextCertId, started>>
    /\ \/ /\ req' = [req EXCEPT ![r].pc = "issue"]
          /\ response' = NoResp
       \/ /\ req' = [req EXCEPT ![r] = Idle]
          /\ response' = Resp("legacy", q.id, 400, "FarmNotFound", Undefined)

\* generateCertificatePDF, then db.create('certificates', { ...req.body,
\* certificateNo, issueDate, expiryDate, pdfUrl }): the table has none of
\* these columns, so the INSERT throws as a failed rendering does, and the
\* catch answers 500
LegacyApproveIssue(r) ==
    LET q == req[r] IN
    /\ q.kind = "legacy" /\ q.pc = "issue"
    /\ UNCHANGED <<inspections, certificates, audit_logs, nextInspId, nextCertId, started>>
    /\ req' = [req EXCEPT ![r] = Idle]
    /\ response' = Resp("legacy", q.id, 500, "Failed", Undefined)

\* ------------------------------------------------------------ specification
InspectionIds == 1..MaxInspections
CertificateIds == 1..MaxRequests

\* The steps that follow the first await of a request
Continue ==
    \/ \E r \in Slots : PutWrite(r)
    \/ \E r \in Slots : PutCheck(r)
    \/ \E r \in Slots : PutRender(r)
    \/ \E r \in Slots : PutCreate(r)
    \/ \E r \in Slots : PutAudit(r)
    \/ \E r \in Slots : ApproveRender(r)
    \/ \E r \in Slots : ApproveCreate(r)

\* Issuance: clients complete and approve inspections and create and renew
\* certificates; every inspection is created completed or scheduled.
Next ==
    \/ \E farm \in Farms, status \in {NoStatus, "completed"}, score \in {Undefined, Threshold} :
            CreateInspection(farm, status, score, NoChecklist)
    \/ \E r \in Slots, id \in InspectionIds, status \in {NoStatus, "completed"}, score \in {Undefined, Threshold} :
            PutRead(r, id, status, score, NoChecklist)
    \/ \E r \in Slots, id \in InspectionIds, via \in ApproveKinds : ApproveRead(r, id, via)
    \/ \E farm \in Farms \cup {NumFarms + 1} : CertificateCreate(farm)
    \/ \E id \in CertificateIds : CertificateRenew(id)
    \/ \E id \in CertificateIds : CertificatePdf(id)
    \/ Continue

Spec == Init /\ [][Next]_vars

\* Lifecycle: clients move one inspection through its statuses, score it,
\* and approve and reject it.  An update carries a score or a checklist.
PutBodies ==
    [status : Statuses \cup {NoStatus}, score : {Undefined}, checklist : {NoChecklist}]
    \cup [status : {NoStatus, "completed"}, score : ScoreInputs, checklist : {NoChecklist}]
    \cup [status : {NoStatus, "completed"}, score : {Undefined}, checklist : ChecklistInputs]

NextLifecycle ==
    \/ \E farm \in Farms \cup {NumFarms + 1}, status \in {NoStatus, "in_progress"} :
            nextInspId = 1 /\ CreateInspection(farm, status, Undefined, NoChecklist)
    \/ \E r \in Slots, b \in PutBodies : PutRead(r, 1, b.status, b.score, b.checklist)
    \/ \E r \in Slots, id \in InspectionIds, via \in ApproveKinds : ApproveRead(r, id, via)
    \/ \E id \in InspectionIds : Reject(id, NoReason)
    \/ \E status \in Statuses \cup {NoStatus} : CtlUpdate(1, status, Undefined, Undefined, Undefined)
    \/ \E score \in {Undefined, 0} : CtlUpdate(1, NoStatus, score, Threshold, Undefined)
    \/ Continue

SpecLifecycle == Init /\ [][NextLifecycle]_vars

\* Review: clients submit or complete one inspection and have it approved or
\* rejected, through the current and the older router.
Reasons == {NoReason, "incomplete records"}

ReviewBodies ==
    [status : {"completed", "Submitted"}, score : {Undefined}, checklist : {NoChecklist}]
    \cup [status : {"completed"}, score : {Threshold}, checklist : {NoChecklist}]
    \cup [status : {NoStatus}, score : {Undefined}, checklist : {CkForeignKey}]

NextReview ==
    \/ \E farm \in Farms, score \in {Undefined, Threshold} :
            nextInspId = 1 /\ CreateInspection(farm, NoStatus, score, NoChecklist)
    \/ \E farm \in Farms : nextInspId = 1 /\ CreateInspection(farm, NoStatus, Undefined, CkForeignKey)
    \/ \E r \in Slots, b \in ReviewBodies : PutRead(r, 1, b.status, b.score, b.checklist)
    \/ CtlUpdate(1, NoStatus, Undefined, Threshold, Undefined)
    \/ \E farmId \in Farms : CtlUpdate(1, NoStatus, Undefined, Undefined, farmId)
    \/ \E id \in InspectionIds, reason \in Reasons : Reject(id, reason)
    \/ \E r \in Slots, id \in InspectionIds, via \in ApproveKinds : ApproveRead(r, id, via)
    \/ \E r \in Slots, id \in InspectionIds : LegacyApproveRead(r, id)
    \/ \E r \in Slots : LegacyApproveWrite(r)
    \/ \E r \in Slots : LegacyApproveLookup(r)
    \/ \E r \in Slots : LegacyApproveIssue(r)
    \/ Continue

SpecReview == Init /\ [][NextReview]_vars

\* Scoring: the scorer and the eligibility decisions, each applied to one
\* argument.  The call is kept in slot 1, its result is the response.
Answers == {"true", "false", "null", "undefined"}
Checklists == UNION {[1..n -> Answers] : n \in 0..MaxChecklistLen}
Scores == 0..MaxScore

ScoreCalls == {[Idle EXCEPT !.kind = "score", !.pc = "call", !.checklist = ck] : ck \in Checklists}
EligibleCalls == {[Idle EXCEPT !.kind = "eligible", !.pc = "call", !.score = sc] : sc \in Scores}

InitScoring ==
    /\ inspections = [i \in {} |-> Idle]
    /\ certificates = {}
    /\ audit_logs = <<>>
    /\ nextInspId = 1
    /\ nextCertId = 1
    /\ \E call \in ScoreCalls \cup EligibleCalls : req = [r \in Slots |-> IF r = 1 THEN call ELSE Idle]
    /\ started = 0
    /\ response = NoResp

\* calculateComplianceScore(checklist)
ScoreChecklist ==
    /\ req[1].kind = "score" /\ req[1].pc = "call"
    /\ response' = Resp("score", 0, 200, "Scored", calculateComplianceScore(req[1].checklist))
    /\ req' = [req EXCEPT ![1].pc = "done"]
    /\ UNCHANGED <<inspections, certificates, audit_logs, nextInspId, nextCertId, started>>

Decision(eligible) == IF eligible THEN "Eligible" ELSE "NotEligible"

\* isEligibleForCertification(score) of utils/inspection
DecideUtil ==
    /\ req[1].kind = "eligible"
    /\ response' = Resp("eligible.util", 0, 200, Decision(isEligibleForCertification(req[1].score)), req[1].score)
    /\ UNCHANGED <<inspections, certificates, audit_logs, nextInspId, nextCertId, started, req>>

\* InspectionController.isEligibleForCertification(score)
DecideController ==
    /\ req[1].kind = "eligible"
    /\ response' = Resp("eligible.controller", 0, 200,
                        Decision(InspectionController_isEligibleForCertification(req[1].score)), req[1].score)
    /\ UNCHANGED <<inspections, certificates, audit_logs, nextInspId, nextCertId, started, req>>

\* the guard of the automatic issuance for the body { status: 'completed', score }
DecidePutGuard ==
    /\ req[1].kind = "eligible"
    /\ response' = Resp("eligible.put", 0, 200,
                        Decision(PutWantsCertificate([req[1] EXCEPT !.status = "completed"])), req[1].score)
    /\ UNCHANGED <<inspections, certificates, audit_logs, nextInspId, nextCertId, started, req>>

NextScoring == ScoreChecklist \/ DecideUtil \/ DecideController \/ DecidePutGuard

SpecScoring == InitScoring /\ [][NextScoring]_vars

\* --------------------------------------------------- DELETE /inspections/:id
\* db.findById('inspections', id)
DeleteRead(r, id) ==
    /\ CanStart(r)
    /\ started' = started + 1
    /\ UNCHANGED <<inspections, certificates, audit_logs, nextInspId, nextCertId>>
    /\ IF id \notin DOMAIN inspections
       THEN /\ response' = Resp("delete", id, 404, "NotFound", Undefined)
            /\ UNCHANGED req
       ELSE /\ response' = NoResp
            /\ req' = [req EXCEPT ![r] = [Idle EXCEPT !.kind = "delete", !.id = id, !.pc = "certificates",
                                                    !.farm = inspections[id].farm_id]]

\* db.findBy('certificates', { farm_id }) and db.delete of every row found
DeleteCertificates(r) ==
    LET q == req[r] IN
    /\ q.kind = "delete" /\ q.pc = "certificates"
    /\ certificates' = {c \in certificates : c.farm_id # q.farm}
    /\ UNCHANGED <<inspections, audit_logs, nextInspId, nextCertId, started>>
    /\ req' = [req EXCEPT ![r].pc = "row"]
    /\ response' = NoResp

\* db.delete('inspections', id), then the answer
DeleteRow(r) ==
    LET q == req[r] IN
    /\ q.kind = "delete" /\ q.pc = "row"
    /\ inspections' = [i \in DOMAIN inspections \ {q.id} |-> inspections[i]]
    /\ UNCHANGED <<certificates, audit_logs, nextInspId, nextCertId, started>>
    /\ req' = [req EXCEPT ![r] = Idle]
    /\ response' = Resp("delete", q.id, 200, "Deleted", Undefined)

\* Removal: clients create completed inspections, have them approved, create
\* certificates directly and delete inspections.
NextRemoval ==
    \/ \E farm \in Farms : CreateInspection(farm, "completed", Threshold, NoChecklist)
    \/ \E r \in Slots, id \in InspectionIds : ApproveRead(r, id, "route")
    \/ \E r \in Slots : ApproveRender(r)
    \/ \E r \in Slots : ApproveCreate(r)
    \/ \E farm \in Farms : CertificateCreate(farm)
    \/ \E r \in Slots, id \in InspectionIds : DeleteRead(r, id)
    \/ \E r \in Slots : DeleteCertificates(r)
    \/ \E r \in Slots : DeleteRow(r)

SpecRemoval == Init /\ [][NextRemoval]_vars

\* Numbering: the part of each issuance path that numbers and dates the
\* certificate and inserts it.  A reading of the clock is a calendar year and
\* a millisecond count; a date is its year.
Years == {2025, 2026}
Ticks == 1..MaxTick
Randoms == 1..MaxRandom
Clock == [year : Years, ms : Ticks]

\* 36^3: toString(36).slice(-3) keeps the last three base-36 digits
Base36Cube == 46656

\* generateCertificateNumber() of utils/pdfGenerator:
\* `ORG-${Date.now().toString(36)}-${random}`
generateCertificateNumber(now, random) ==
    "ORG-" \o ToString(now.ms) \o "-" \o ToString(random)

\* InspectionController.generateCertificateNumber(): `CERT-${Date.now()}`
InspectionController_generateCertificateNumber(now) ==
    "CERT-" \o ToString(now.ms)

\* Certificate.generateCertificateNumber():
\* `ORG-${year}-${Date.now().toString(36).slice(-3)}${random}`
Certificate_generateCertificateNumber(now, random) ==
    "ORG-" \o ToString(now.year) \o "-" \o ToString(now.ms % Base36Cube) \o ToString(random)

\* calculateExpiryDate(issueDate) of utils/pdfGenerator
calculateExpiryDate(issueDate) == issueDate + 1

\* InspectionController.calculateExpiryDate(issueDate)
InspectionController_calculateExpiryDate(issueDate) == issueDate + 3

\* the row of an issuance: NewCertificate with its number and its dates
NumberedCertificate(farm, via, pdf_url, number, issueDate, expiryDate) ==
    [id |-> nextCertId, farm_id |-> farm, status |-> "active", pdf_url |-> pdf_url,
     origin |-> 0, via |-> via,
     certificate_number |-> number, issue_date |-> issueDate, expiry_date |-> expiryDate]

\* DbCreate on a table without the UNIQUE index on certificate_number
DbCreateNoUniqueIndex(row, created, failed) ==
    /\ certificates' = certificates \cup {row}
    /\ nextCertId' = nextCertId + 1
    /\ response' = created

\* db.create('certificates', row): certificate_number is UNIQUE NOT NULL, so
\* the INSERT of a number that a row carries throws and the handler answers
\* from its catch
DbCreate(row, created, failed) ==
    IF \E c \in certificates : c.certificate_number = row.certificate_number
    THEN /\ UNCHANGED <<certificates, nextCertId>>
         /\ response' = failed
    ELSE /\ certificates' = certificates \cup {row}
         /\ nextCertId' = nextCertId + 1
         /\ response' = created

\* router.post('/:id/approve'): certificateNo, issueDate, expiryDate, db.create
ApproveIssue(farm, now, random) ==
    /\ Budget
    /\ started' = started + 1
    /\ UNCHANGED <<inspections, audit_logs, nextInspId, req>>
    /\ DbCreate(NumberedCertificate(farm, "route", NullText, generateCertificateNumber(now, random),
                                    now.year, calculateExpiryDate(now.year)),
                Resp("approve", 0, 200, "Approved", Undefined),
                Resp("approve", 0, 500, "Failed", Undefined))

\* InspectionController.approve: the same with the controller's own helpers
ControllerIssue(farm, now) ==
    /\ Budget
    /\ started' = started + 1
    /\ UNCHANGED <<inspections, audit_logs, nextInspId, req>>
    /\ DbCreate(NumberedCertificate(farm, "controller", NullText,
                                    InspectionController_generateCertificateNumber(now),
                                    now.year, InspectionController_calculateExpiryDate(now.year)),
                Resp("approve", 0, 200, "Approved", Undefined),
                Resp("approve", 0, 500, "Failed", Undefined))

\* router.put('/:id'), the certificate block: a failed INSERT is swallowed
PutIssue(farm, now, random) ==
    /\ Budget
    /\ started' = started + 1
    /\ UNCHANGED <<inspections, audit_logs, nextInspId, req>>
    /\ DbCreate(NumberedCertificate(farm, "put", PdfUrl, generateCertificateNumber(now, random),
                                    now.year, calculateExpiryDate(now.year)),
                Resp("put", 0, 200, "UpdatedWithCertificate", Undefined),
                Resp("put", 0, 200, "Updated", Undefined))

\* router.post('/') of the certificates: the dates are those of the body
CertificateCreateDated(farm, issueDate, expiryDate, now, random) ==
    /\ Budget
    /\ started' = started + 1
    /\ UNCHANGED <<inspections, audit_logs, nextInspId, req>>
    /\ DbCreate(NumberedCertificate(farm, "direct", NullText,
                                    Certificate_generateCertificateNumber(now, random),
                                    issueDate, expiryDate),
                Resp("certificate", nextCertId, 201, "Created", Undefined),
                Resp("certificate", 0, 500, "Failed", Undefined))

NextNumbering ==
    \/ \E farm \in Farms, now \in Clock, random \in Randoms : ApproveIssue(farm, now, random)
    \/ \E farm \in Farms, now \in Clock : ControllerIssue(farm, now)
    \/ \E farm \in Farms, now \in Clock, random \in Randoms : PutIssue(farm, now, random)
    \/ \E issueDate \in Years, expiryDate \in Years, now \in Clock, random \in Randoms :
            CertificateCreateDated(1, issueDate, expiryDate, now, random)

SpecNumbering == Init /\ [][NextNumbering]_vars

\* ------------------------------------------------------------------ claims
\* the row of a certificate inserted by the step, if the step inserts one
Inserted == {c \in certificates' : \A d \in certificates : d.id # c.id}

\* the request of slot r ends with this step
Ends(r) == req[r].kind # "idle" /\ req'[r].kind = "idle"

\* C1: each farm has at most one certificate whose status is active.
C1_AtMostOneActivePerFarm ==
    \A f \in Farms : Cardinality(ActiveCerts(f)) <= 1

\* C2: of two Approve calls that run concurrently for two different
\* inspections of one farm, the one that finishes second inserts no
\* certificate and answers DuplicateCertificate.
C2_ConcurrentApprovalsIssueOnce ==
    [][\A r \in Slots :
        (req[r].kind \in ApproveKinds /\ req[r].overlapped /\ req[r].pc = "create"
            /\ ActiveCerts(req[r].farm) # {} /\ Ends(r))
        => (Inserted = {} /\ response'.outcome = "DuplicateCertificate")]_vars

\* C3: an issuance attempt (the Approve of an eligible inspection, a direct
\* creation) for a farm that has an active certificate answers
\* DuplicateCertificate and leaves the certificate rows unchanged.
C3_DuplicateIssuanceFails ==
    [][/\ \A r \in Slots :
            (req[r].kind \in ApproveKinds /\ ActiveCerts(req[r].farm) # {} /\ Ends(r))
            => (certificates' = certificates /\ response'.outcome = "DuplicateCertificate")
       /\ \A farm \in Farms :
            (ActiveCerts(farm) # {} /\ CertificateCreate(farm))
            => (certificates' = certificates /\ response'.outcome = "DuplicateCertificate")]_vars

\* C4: no inspection has more than one certificate created on its account.
C4_IssuedOncePerInspection ==
    \A i \in DOMAIN inspections : Cardinality({c \in certificates : c.origin = i}) <= 1

\* C5: a successful Approve inserts exactly one certificate, for the farm of
\* the inspection, moves the inspection to approved and appends the history
\* record completed -> approved.
C5_ApproveEffects ==
    [][(response'.kind = "approve" /\ response'.code = 200) =>
        LET id == response'.id IN
        /\ Cardinality(Inserted) = 1
        /\ \A c \in Inserted : c.farm_id = inspections[id].farm_id
        /\ inspections'[id].status = "approved"
        /\ audit_logs' = Append(audit_logs, [record_id |-> id, old |-> "completed", new |-> "approved"])]_vars

\* C6: Approve of a completed inspection whose score is below 80 answers
\* BelowThreshold with that score, and leaves the inspection completed and
\* the certificates as they were.
C6_BelowThreshold ==
    [][\A r \in Slots, id \in DOMAIN inspections, via \in ApproveKinds :
        (/\ inspections[id].status = "completed"
         /\ inspections[id].score \in 0..(Threshold - 1)
         /\ inspections[id].compliance_score = Null
         /\ ApproveRead(r, id, via))
        => /\ response' = Resp("approve", id, 400, "BelowThreshold", inspections[id].score)
           /\ inspections'[id].status = "completed"
           /\ certificates' = certificates]_vars

Terminal == {"approved", "rejected", "cancelled"}

\* C8: once an inspection is approved, rejected or cancelled its stored
\* status never changes again.
C8_TerminalStatuses ==
    [][\A i \in DOMAIN inspections :
        inspections[i].status \in Terminal => inspections'[i].status = inspections[i].status]_vars

\* the edges of the lifecycle graph
Edges == {<<"scheduled", "in_progress">>, <<"in_progress", "completed">>,
          <<"completed", "approved">>, <<"completed", "rejected">>,
          <<"scheduled", "cancelled">>, <<"in_progress", "cancelled">>}

\* C9: every change of an inspection's stored status follows an edge of the
\* lifecycle graph.
C9_OnlyLifecycleEdges ==
    [][\A i \in DOMAIN inspections :
        inspections'[i].status # inspections[i].status
        => <<inspections[i].status, inspections'[i].status>> \in Edges]_vars

\* every fixed key has a true or false answer
FullyAnswered(checklist) ==
    /\ Len(checklist) = Len(CHECKLIST_QUESTIONS)
    /\ \A k \in 1..Len(checklist) : checklist[k] \in {"true", "false"}

\* C10: an update moves an inspection to completed only if its checklist
\* answers every one of the five keys with true or false.
C10_CompletedNeedsFullChecklist ==
    [][\A i \in DOMAIN inspections :
        (inspections[i].status # "completed" /\ inspections'[i].status = "completed")
        => FullyAnswered(inspections'[i].checklist)]_vars

\* the score the contract gives a checklist: only true and false are answers
ContractScore(checklist) ==
    LET answered == CountIf(checklist, {"true", "false"})
        yes == CountIf(checklist, {"true"})
    IN  IF answered = 0 THEN 0 ELSE RoundPct(yes, answered)

\* C11: an inspection whose score is set has the score of its stored
\* checklist, round(100 * true answers / true-or-false answers).
C11_ScoreMatchesChecklist ==
    \A i \in DOMAIN inspections :
        inspections[i].score \notin {Null, Undefined}
        => inspections[i].score = ContractScore(inspections[i].checklist)

\* C12: the update that makes an inspection completed stores the score the
\* checklist scorer gives the checklist the inspection then has.
C12_CompletedRecomputesScore ==
    [][\A i \in DOMAIN inspections :
        (inspections[i].status # "completed" /\ inspections'[i].status = "completed")
        => inspections'[i].score = calculateComplianceScore(inspections'[i].checklist)]_vars

\* C13: Reject of a completed inspection answers success, makes it rejected,
\* stores the reason it was given in the notes and leaves the certificates
\* alone; Reject of an inspection in another status answers an error and
\* changes neither table.
C13_RejectCompleted ==
    [][\A id \in DOMAIN inspections, reason \in Reasons \ {NoReason} :
        Reject(id, reason) =>
            IF inspections[id].status = "completed"
            THEN /\ response'.code = 200
                 /\ inspections' = [inspections EXCEPT ![id].status = "rejected", ![id].notes = reason]
                 /\ certificates' = certificates
            ELSE /\ response'.code >= 400
                 /\ UNCHANGED <<inspections, certificates>>]_vars

\* C18: a request that is answered with a failed precondition (400, 404) has
\* changed neither the inspections nor the certificates.
C18_PreconditionFailureChangesNothing ==
    [][response'.code \in {400, 404} =>
        /\ UNCHANGED <<inspections, certificates>>
        /\ \A r \in Slots : Ends(r) => ~req[r].wrote]_vars

\* C14: calculateComplianceScore returns an integer of 0..100, the rounded
\* percentage of true answers among the true and false answers, and 0 when
\* the checklist has no true or false answer.
C14_ScorerContract ==
    response.kind = "score" =>
        /\ response.score \in 0..100
        /\ response.score = ContractScore(req[1].checklist)

EligibleKinds == {"eligible.util", "eligible.controller", "eligible.put"}

\* C15: each eligibility decision accepts a score of 0..100 iff it is at
\* least 80.
C15_EligibleIffAtLeast80 ==
    response.kind \in EligibleKinds =>
        (response.outcome = "Eligible" <=> response.score >= 80)

\* the boundary: 79 has been refused by the update handler's guard
C15_Witness ==
    /\ response.kind = "eligible.put" /\ response.score = 79 /\ response.outcome = "NotEligible"
    /\ req[1].score = 79

\* the request of slot r leaves the rendering without a document
RenderFails(r) == req[r].pc = "render" /\ req'[r].pc \notin {"render", "create"}

\* C16: an issuance whose rendering fails inserts no certificate, neither in
\* that step nor later, and leaves the inspections and certificates as they
\* were, so that it stands in the way of no later issuance; a certificate is
\* inserted only by a request whose rendering has succeeded, and the row the
\* update handler inserts carries the reference of its document.
C16_RenderFailureLeavesNoRow ==
    [][/\ \A r \in Slots : RenderFails(r) =>
            /\ UNCHANGED <<inspections, certificates, nextCertId>>
            /\ req'[r].pc \in {"idle", "audit"}
       /\ \A c \in Inserted : c.via # "direct" =>
            /\ \E r \in Slots : req[r].kind = c.via /\ req[r].pc = "create" /\ req[r].id = c.origin
            /\ c.via = "put" => c.pdf_url # NullText
       /\ response'.outcome = "Failed" => UNCHANGED <<inspections, certificates>>]_vars

\* an approval has just failed in the rendering: the farm has no row, and the
\* inspection still passes the checks of an approval
C16_Witness ==
    /\ response.kind = "approve" /\ response.outcome = "Failed"
    /\ response.id \in DOMAIN inspections
    /\ ActiveCerts(inspections[response.id].farm_id) = {}
    /\ inspections[response.id].status = "completed"
    /\ isEligibleForCertification(ApproveScore(inspections[response.id]))

\* C17: a certificate that an issuance inserts as active carries a PDF
\* reference; no later step of an issuance writes the row it has inserted.
C17_ActiveCertificateHasPdf ==
    [][\A c \in Inserted : c.status = "active" => c.pdf_url # NullText]_vars

\* C19: a request in which the issuance fails ends there with an error
\* answer and has written nothing to the inspections.
C19_NoSwallowedFailure ==
    [][\A r \in Slots : RenderFails(r) =>
        /\ Ends(r)
        /\ response'.code >= 400
        /\ ~req[r].wrote]_vars

\* the status-history rows of an inspection, in the order of their insertion
HistoryOf(i) == SelectSeq(audit_logs, LAMBDA e : e.record_id = i)

\* C20: when no update of an inspection is in flight, each of its history
\* rows starts from the status the row before it ends in, and the last one
\* ends in the stored status.
C20_HistoryInOrder ==
    \A i \in DOMAIN inspections :
        (\A r \in Slots : ~(req[r].kind = "put" /\ req[r].id = i)) =>
            LET h == HistoryOf(i) IN
            /\ \A k \in 1..(Len(h) - 1) : h[k].new = h[k + 1].old
            /\ h # <<>> => h[Len(h)].new = inspections[i].status

\* the farm has an inspection that is completed with a score of at least 80
HasQualifyingInspection(farm) ==
    \E i \in DOMAIN inspections :
        /\ inspections[i].farm_id = farm
        /\ inspections[i].status = "completed"
        /\ isEligibleForCertification(ApproveScore(inspections[i]))

\* C21: whichever path inserts a certificate, the farm of the new row has, at
\* that moment, an inspection that is completed with a score of at least 80.
C21_CertificateNeedsQualifyingInspection ==
    [][\A c \in Inserted : HasQualifyingInspection(c.farm_id)]_vars

\* C22: every certificate expires one and the same validity period after its
\* issue date, whichever path has issued it.
C22_OneValidityPeriod ==
    \A c, d \in certificates :
        c.expiry_date - c.issue_date = d.expiry_date - d.issue_date

\* C23: no two certificate rows carry the same certificate number.
C23_NumbersUnique ==
    \A c, d \in certificates : c.id # d.id => c.certificate_number # d.certificate_number

\* an INSERT has just been refused: the number the request generated was
\* that of a row
C23_Witness ==
    /\ response.kind = "approve" /\ response.code = 500
    /\ \E c, d \in certificates : c.via = "route" /\ d.via = "controller"

\* the status code of the answer BelowThreshold
BelowThresholdCode == 400

BusinessFailures == {"BelowThreshold", "DuplicateCertificate"}
InfrastructureFailures == {"NotFound", "FarmNotFound", "Failed"}

\* C24: the answers of Approve keep the business failures (BelowThreshold,
\* DuplicateCertificate) apart from the failures NotFound (inspection, farm
\* or farmer) and RenderingFailure: a business failure carries the status
\* code of its class, and no failure of the other group carries it.
C24_FailureClassesDistinct ==
    response.kind \in {"approve", "legacy"} =>
        /\ response.outcome \in BusinessFailures => response.code = BelowThresholdCode
        /\ response.outcome \in InfrastructureFailures => response.code # BelowThresholdCode

\* the checklist has an item under a key outside the five fixed keys
HasForeignKey(checklist) == Len(checklist) > Len(CHECKLIST_QUESTIONS)

\* C25: no stored checklist has a key outside the five fixed keys: a create
\* or an update that carries one is rejected, so it is neither stored nor
\* scored.
C25_ForeignKeyRejected ==
    \A i \in DOMAIN inspections : ~HasForeignKey(inspections[i].checklist)

\* C26: no step changes the id or the farm of an inspection: every
\* inspection keeps its id and its farm_id under update, Approve and Reject,
\* whatever the body of the request carries.
C26_IdentityFixed ==
    [][\A i \in DOMAIN inspections :
        /\ i \in DOMAIN inspections'
        /\ inspections'[i].farm_id = inspections[i].farm_id]_vars

\* the update request of slot r takes a step
PutSteps(r) == req[r].kind = "put" /\ req'[r] # req[r]

\* the write of slot r's update sets status completed and stores a score of
\* at least 80
PutStoresQualifyingScore(r) ==
    /\ req[r].status = "completed"
    /\ req[r].score # Undefined \/ req[r].checklist # NoChecklist
    /\ GreaterEq(inspections'[req[r].id].score, Threshold)

\* what C27 says of every step of an update request but the rendering: the
\* request goes on towards a certificate exactly when it sets completed with
\* a stored score of at least 80, and then exactly when the farm has no
\* active certificate; the certificate it inserts is active, of the
\* inspection's farm, with the renderer's reference; no other step of an
\* update request inserts one
PutIssuanceSteps ==
    \A r \in Slots : PutSteps(r) =>
        /\ req[r].pc = "write" => (req'[r].pc = "check" <=> PutStoresQualifyingScore(r))
        /\ req[r].pc = "check" => (req'[r].pc = "render" <=> ActiveCerts(req[r].farm) = {})
        /\ req[r].pc = "create" =>
                /\ Cardinality(Inserted) = 1
                /\ \A c \in Inserted :
                        /\ c.status = "active"
                        /\ c.farm_id = inspections[req[r].id].farm_id
                        /\ c.pdf_url = PdfUrl
        /\ req[r].pc # "create" => Inserted = {}

PutLogs(q) == q.status # NoStatus /\ q.status # q.oldStatus

\* C28: an update request appends exactly one history record iff its write
\* changes the stored status, and the record goes from the status stored
\* immediately before the write to the status stored immediately after it;
\* no other step appends a record.
C28_OneRecordPerStatusChange ==
    [][\A r \in Slots : PutSteps(r) =>
        LET q == req[r] IN
        /\ q.pc = "write" =>
                /\ (inspections'[q.id].status # inspections[q.id].status) <=> PutLogs(q)
                /\ PutLogs(q) => (q.oldStatus = inspections[q.id].status
                                  /\ q.status = inspections'[q.id].status)
        /\ Ends(r) => (q.pc = "audit" <=> PutLogs(q))
        /\ IF q.pc = "audit"
           THEN audit_logs' = Append(audit_logs, [record_id |-> q.id, old |-> q.oldStatus, new |-> q.status])
           ELSE audit_logs' = audit_logs]_vars

\* C29: a delete request removes its inspection and the certificates that
\* stem from it, and nothing else: every other inspection and every other
\* certificate, those of the same farm included, stays as it is.
C29_DeleteRemovesOnlyItsOwn ==
    [][\A r \in Slots : (req[r].kind = "delete" /\ req'[r] # req[r]) =>
        /\ \A c \in certificates : c.origin # req[r].id => c \in certificates'
        /\ \A i \in DOMAIN inspections \ {req[r].id} :
                i \in DOMAIN inspections' /\ inspections'[i] = inspections[i]
        /\ (Ends(r) /\ response'.code = 200) =>
                /\ req[r].id \notin DOMAIN inspections'
                /\ \A c \in certificates' : c.origin # req[r].id]_vars

\* C30: an inspection that a step creates is scheduled and has no
\* certificate, whatever the create request carries, and the status of every
\* inspection is one of the six statuses of the lifecycle.
C30_StartsScheduled ==
    [][/\ \A i \in DOMAIN inspections' \ DOMAIN inspections :
            /\ inspections'[i].status = "scheduled"
            /\ \A c \in certificates' : c.origin # i
       /\ \A i \in DOMAIN inspections' : inspections'[i].status \in Statuses]_vars

TypeOK ==
    /\ \A i \in DOMAIN inspections : inspections[i].status \in Statuses
    /\ started \in 0..MaxRequests

====
